---- MODULE Spec2Model ----
(***************************************************************************)
(* jogoborg: the backup scheduler (scripts/scheduler.py), the pipeline     *)
(* executor (scripts/backup_executor.py) and the manual trigger of the web *)
(* server (scripts/web_server.py), as a state machine.                     *)
(*                                                                         *)
(* Time is counted in whole seconds since a minute boundary of the local   *)
(* wall clock.  Every job thread is a record holding the position (pc) of  *)
(* its call of execute_job and the local variables of that call.           *)
(***************************************************************************)
EXTENDS Integers, Sequences, FiniteSets, TLC

VARIABLES
    now,                  \* the UTC clock, in seconds
    tz_offset,            \* local wall clock minus UTC, in seconds
    backup_jobs,          \* table backup_jobs: job id -> stored job definition
    job_logs,             \* table job_logs: sequence of rows, index = row id
    running_jobs,         \* BackupScheduler.running_jobs
    last_checked_minute,  \* local variable of BackupScheduler.run
    next_poll,            \* instant at which the scheduler's sleep ends
    threads,              \* job threads (scheduled and manual), in start order
    repo_exists,          \* os.path.exists(repo_path), per job id
    dump_dir,             \* the dump files present in /tmp/db_dumps
    env_passphrase,       \* environment variable BORG_PASSPHRASE
    time_stderr,          \* what /usr/bin/time -v writes for a command
    restarts,             \* number of process restarts so far
    archives,             \* the archives of each repository, by job name
    pruned                \* the archives the last prune command selected

vars == <<now, tz_offset, backup_jobs, job_logs, running_jobs,
          last_checked_minute, next_poll, threads, repo_exists, dump_dir,
          env_passphrase, time_stderr, restarts, archives, pruned>>

----------------------------------------------------------------------------
(* Bounds of the model *)

Horizon == 62           \* the clock stops here
MaxRuns == 2            \* job threads the scheduler starts in one behaviour
MaxManual == 1          \* manual triggers in one behaviour
MaxDrift == 1           \* seconds one loop iteration may take beyond its sleep
MaxRestarts == 1        \* process restarts in one behaviour

----------------------------------------------------------------------------
(* Values *)

None == "None"          \* Python None / SQL NULL for text values
NULL == -1              \* Python None / SQL NULL for numeric values
NoMetric == <<NULL, NULL>>

Truthy(x) == x \notin {None, ""}

JobIds == {1}

Stages == <<"pre_command", "repository", "create", "prune", "compact",
            "db_dump", "db_archive", "db_prune", "db_compact",
            "s3_sync", "post_command">>

MetricStages == {"create", "prune", "compact",
                 "db_dump", "db_archive", "db_prune", "db_compact"}

DbStages == {"db_dump", "db_archive", "db_prune", "db_compact"}

\* position of a stage in the fixed order of execute_job
StageRank(s) == CHOOSE i \in 1..Len(Stages) : Stages[i] = s

\* the columns of job_logs that hold stage metrics (init_db.py)
JobLogMetricColumns == {"create", "prune", "compact", "db_dump"}

SLEEP_SECONDS == 30
RETRY_SECONDS == 60
GRACE_SECONDS == 61
MINUTE == 60

----------------------------------------------------------------------------
(* Stored values.  Sensitive columns hold ciphertext; decrypt_data maps a  *)
(* ciphertext to its plaintext and returns None for anything else.         *)

Plaintext == [c \in {"enc:secret", "enc:pg", "enc:bucket"} |->
                 CASE c = "enc:secret" -> "secret"
                   [] c = "enc:pg"     -> "postgresql"
                   [] c = "enc:bucket" -> "bucket"]

DecryptOk(c) == c \in DOMAIN Plaintext
DecryptData(c) == IF DecryptOk(c) THEN Plaintext[c] ELSE None

\* the job dict handed to execute_job
JobDict(id, name, schedule, compression, keep_daily, sources, pre, post, s3, db, pw) ==
    [id |-> id, name |-> name, schedule |-> schedule,
     compression |-> compression, keep_daily |-> keep_daily,
     source_directories |-> sources,
     pre_command |-> pre, post_command |-> post,
     s3_config |-> s3, db_config |-> db,
     repository_passphrase |-> pw]

----------------------------------------------------------------------------
(* BackupExecutor: pure helpers *)

ValidCompressions == {"none", "lz4", "zstd", "zlib", "lzma"}

\* _validate_job_config: the set of error messages
ValidateJobConfig(job, env_pw) ==
    (IF job.name = None THEN {"Field 'name' has wrong type"} ELSE {})
    \cup (IF job.source_directories = <<>>
             THEN {"Job must have at least one source directory"}
             ELSE IF \E i \in DOMAIN job.source_directories :
                        job.source_directories[i] \in {"", " "}
                     THEN {"Invalid source directory"} ELSE {})
    \cup (IF job.compression \notin ValidCompressions
             THEN {"Invalid compression type"} ELSE {})
    \cup (IF job.keep_daily < 0
             THEN {"Field 'keep_daily' must be non-negative"} ELSE {})
    \cup (IF ~Truthy(job.repository_passphrase) /\ ~Truthy(env_pw)
             THEN {"No repository passphrase provided"} ELSE {})

\* a value of the report of /usr/bin/time that float() raises on
Garbage == -2

\* _parse_time_output followed by int(max_memory): (duration, max_memory).
\* A line that is not there leaves the default of its value; an exception
\* in any line resets both values to their defaults
ParseTimeOutput(stderr) ==
    IF Garbage \in {stderr.elapsed, stderr.maxrss_kb} THEN <<0, 1>>
    ELSE << IF stderr.elapsed = NULL THEN 0 ELSE stderr.elapsed,
            IF stderr.maxrss_kb = NULL THEN 1 ELSE stderr.maxrss_kb \div 1024 >>

\* the reports: complete, missing, partial, unparseable
TimeOutputs == { [elapsed |-> 3, maxrss_kb |-> 20480],
                 [elapsed |-> NULL, maxrss_kb |-> NULL],
                 [elapsed |-> 3, maxrss_kb |-> NULL],
                 [elapsed |-> NULL, maxrss_kb |-> 20480],
                 [elapsed |-> Garbage, maxrss_kb |-> 20480],
                 [elapsed |-> 3, maxrss_kb |-> Garbage] }

\* a row of job_logs as _create_log_entry inserts it; of finished_at, which
\* nothing reads back, the row keeps only whether it is set
NewLogEntry(job_id, started_at) ==
    [job_id |-> job_id, started_at |-> started_at, finished_at |-> None,
     status |-> "running",
     metrics |-> [c \in JobLogMetricColumns |-> NoMetric],
     error_message |-> None]

\* the metric columns written by the two UPDATE statements of
\* _update_log_entry
FullUpdateColumns == MetricStages
FallbackUpdateColumns == {"create", "prune", "compact"}

\* an update that writes the status and leaves finished_at as it is
UpdateLogEntryStatusOnly(row, finished_at, status, m, error_message) ==
    [row EXCEPT !.status = status,
                !.metrics = [c \in JobLogMetricColumns |->
                                IF c \in FallbackUpdateColumns THEN m[c] ELSE @[c]],
                !.error_message = error_message]

\* _update_log_entry: the full UPDATE fails with "no such column" when the
\* table lacks one of its columns, and the fallback UPDATE runs instead
UpdateLogEntry(row, finished_at, status, m, error_message) ==
    LET written == IF FullUpdateColumns \subseteq JobLogMetricColumns
                      THEN FullUpdateColumns ELSE FallbackUpdateColumns
    IN [row EXCEPT !.finished_at = finished_at,
                   !.status = status,
                   !.metrics = [c \in JobLogMetricColumns |->
                                   IF c \in written THEN m[c] ELSE @[c]],
                   !.error_message = error_message]

\* the value a run record holds for a stage; a stage without a column has
\* nothing stored
RowMetric(row, s) ==
    IF s \in JobLogMetricColumns THEN row.metrics[s] ELSE NoMetric

\* which position follows which, by the optional parts of the job
\* a pipeline that dumps the database after the sync
AfterSyncThenDb(job) ==
    IF Truthy(job.db_config) THEN "db_dump"
    ELSE IF Truthy(job.post_command) THEN "post_command" ELSE "update_completed"

AfterSync(job) ==
    IF Truthy(job.post_command) THEN "post_command" ELSE "update_completed"
AfterDb(job) == IF Truthy(job.s3_config) THEN "s3_sync" ELSE AfterSync(job)
AfterCompact(job) == IF Truthy(job.db_config) THEN "db_dump" ELSE AfterDb(job)
AfterLogEntry(job) ==
    IF Truthy(job.pre_command) THEN "pre_command" ELSE "repository"

\* a thread at the start of its target function
NewThread(jid, path, fire, job) ==
    [jid |-> jid, path |-> path, fire |-> fire, job |-> job,
     pc |-> "thread_start", started_at |-> NULL, log_entry_id |-> 0,
     m |-> [s \in MetricStages |-> NoMetric],
     db |-> [s \in MetricStages |-> NoMetric],
     exc |-> None, error |-> None,
     dump_files |-> {}, remove_failed |-> {}, trace |-> <<>>, failed |-> {},
     notified |-> None, thread_notified |-> None]

\* the target function of a thread has returned: its locals are gone
Finished(th) ==
    [NewThread(th.jid, th.path, th.fire, th.job) EXCEPT
        !.pc = "done", !.log_entry_id = th.log_entry_id]

\* an except clause that records the failure and lets the thread go on to
\* the success path
CaughtAndSwallowed(th, msg) == [th EXCEPT !.pc = "update_completed", !.error = msg]

\* the except clause of execute_job catches an exception with message msg
Caught(th, msg) == [th EXCEPT !.pc = "update_failed", !.error = msg]

\* ghost: the stage is recorded as having been executed
Ran(th, stage) == [th EXCEPT !.trace = Append(@, stage)]

\* ghost: the operation of the stage is recorded as having failed
Failing(th, stage) == [th EXCEPT !.failed = @ \cup {stage}]

----------------------------------------------------------------------------
(* The steps of a job thread, as functions of the state they read and      *)
(* write.  w is the record of that state; every step returns the record    *)
(* after the step.                                                         *)

World == [threads |-> threads, job_logs |-> job_logs,
          running_jobs |-> running_jobs, repo_exists |-> repo_exists,
          dump_dir |-> dump_dir]

Apply(w) ==
    /\ threads' = w.threads
    /\ job_logs' = w.job_logs
    /\ running_jobs' = w.running_jobs
    /\ repo_exists' = w.repo_exists
    /\ dump_dir' = w.dump_dir

With(w, t, th) == [w EXCEPT !.threads[t] = th]

envVars == <<now, tz_offset, backup_jobs, last_checked_minute, next_poll,
             env_passphrase, time_stderr, restarts, archives, pruned>>

HookOutcomes == {"zero", "nonzero", "timeout"}
ExitCodes == {"zero", "nonzero"}
\* create_dumps: every table is dumped; there is no table to dump; the dump
\* of the first table fails; after the file of the first table is written,
\* the dump of the second table exits non-zero, or exceeds its timeout
DumpResults == {"files", "empty", "raise", "nonzero", "timeout"}
DumpFiles == {"table_a.sql", "table_b.sql"}

\* what the except clauses of _dump_postgresql and _dump_mariadb leave of
\* the files written so far: the clause for TimeoutExpired removes nothing,
\* the clause for every other exception removes each of them
LeftByFailedDump(written, result) ==
    IF result = "timeout" THEN written ELSE {}
SyncResults == {"synced", "raise"}

\* what happens inside send_notification: everything is delivered, loading
\* the settings raises, the SMTP send raises, the webhook send raises
Deliveries == {"delivered", "settings_error", "smtp_error", "webhook_error"}

\* send_notification: each send has its own try, and the whole body has one
\* that catches what loading the settings raises
SendNotification(delivery) ==
    CASE delivery = "delivered"      -> "returns"
      [] delivery = "smtp_error"     -> "returns"
      [] delivery = "webhook_error"  -> "returns"
      [] delivery = "settings_error" -> "returns"

\* what the world outside does to one run: the outcome of every command the
\* run may start, and the dump files os.remove fails on
Plans == [pre_command : HookOutcomes, repository : ExitCodes,
          create : ExitCodes, prune : ExitCodes, compact : ExitCodes,
          db_dump : DumpResults, db_archive : ExitCodes,
          db_prune : ExitCodes, db_compact : ExitCodes,
          db_cleanup : SUBSET DumpFiles, s3_sync : SyncResults,
          post_command : HookOutcomes, notify : Deliveries,
          thread_notify : Deliveries]

\* first statements of the thread: the scheduled path marks the job as
\* running; execute_job then reads started_at from the UTC clock
ThreadStartStep(w, t) ==
    LET th == w.threads[t]
    IN [With(w, t, [th EXCEPT !.started_at = now, !.pc = "validate"])
          EXCEPT !.running_jobs = IF th.path = "scheduled"
                                     THEN @ \cup {th.jid} ELSE @]

\* an execute_job that goes on whatever the validation finds
ValidateStepLenient(w, t) ==
    With(w, t, [w.threads[t] EXCEPT !.pc = "create_log_entry"])

\* _validate_job_config at the head of execute_job: raises before any row
\* is inserted
ValidateStep(w, t) ==
    LET th == w.threads[t]
    IN IF ValidateJobConfig(th.job, env_passphrase) = {}
          THEN With(w, t, [th EXCEPT !.pc = "create_log_entry"])
          ELSE With(w, t, [th EXCEPT !.pc = "raised",
                                     !.error = "Job validation failed"])

\* _create_log_entry
CreateLogEntryStep(w, t) ==
    LET th == w.threads[t]
    IN [With(w, t, [th EXCEPT !.log_entry_id = Len(w.job_logs) + 1,
                              !.pc = AfterLogEntry(th.job)])
          EXCEPT !.job_logs = Append(@, NewLogEntry(th.job.id, th.started_at))]

\* _execute_command: returns normally on any exit code, raises on a timeout
ExecuteCommandReturns(outcome) == outcome \in {"zero", "nonzero"}

\* a hook of execute_job: pre-command or post-command
HookStep(w, t, stage, next, outcome) ==
    LET th == Ran(w.threads[t], stage)
    IN IF ExecuteCommandReturns(outcome)
          THEN With(w, t, [th EXCEPT !.pc = next])
          ELSE With(w, t, Caught(Failing(th, stage), "Command execution timed out"))

PreCommandStep(w, t, outcome) ==
    HookStep(w, t, "pre_command", "repository", outcome)

PostCommandStep(w, t, outcome) ==
    HookStep(w, t, "post_command", "update_completed", outcome)

\* repository path and _init_repository; os.makedirs(repo_path) precedes
\* borg init
RepositoryStep(w, t, code) ==
    LET th == Ran(w.threads[t], "repository")
    IN IF w.repo_exists[th.jid]
          THEN With(w, t, [th EXCEPT !.pc = "create"])
          ELSE IF ~Truthy(th.job.repository_passphrase)
                  THEN With(w, t, Caught(Failing(th, "repository"),
                          "Could not initialize repository: Passphrase is required"))
                  ELSE [With(w, t, IF code = "zero"
                                      THEN [th EXCEPT !.pc = "create"]
                                      ELSE Caught(Failing(th, "repository"),
                                                  "Failed to initialize repository"))
                          EXCEPT !.repo_exists[th.jid] = TRUE]

\* a borg stage that raises when the report of /usr/bin/time is not
\* complete and parseable
BorgStepStrict(w, t, stage, next, failure, code) ==
    LET th == Ran(w.threads[t], stage)
    IN IF code = "zero"
          THEN IF time_stderr.elapsed \in {NULL, Garbage}
                     \/ time_stderr.maxrss_kb \in {NULL, Garbage}
                  THEN With(w, t, Caught(th, "Failed to parse time output"))
                  ELSE With(w, t, [th EXCEPT
                          !.m = [@ EXCEPT ![stage] = ParseTimeOutput(time_stderr)],
                          !.pc = next])
          ELSE With(w, t, Caught(Failing(th, stage), failure))

\* a fatal borg stage of execute_job: _execute_borg_create / _prune / _compact
BorgStep(w, t, stage, next, failure, code) ==
    LET th == Ran(w.threads[t], stage)
    IN IF code = "zero"
          THEN With(w, t, [th EXCEPT
                  !.m = [@ EXCEPT ![stage] = ParseTimeOutput(time_stderr)],
                  !.pc = next])
          ELSE With(w, t, Caught(Failing(th, stage), failure))

CreateStep(w, t, code) ==
    BorgStep(w, t, "create", "prune", "Borg create failed", code)
PruneStep(w, t, code) ==
    BorgStep(w, t, "prune", "compact", "Borg prune failed", code)
\* a compact stage whose failure is logged and not raised
CompactStepLogged(w, t, code) ==
    LET th == Ran(w.threads[t], "compact")
    IN IF code = "zero"
          THEN With(w, t, [th EXCEPT
                  !.m = [@ EXCEPT !["compact"] = ParseTimeOutput(time_stderr)],
                  !.pc = AfterCompact(th.job)])
          ELSE With(w, t, [Failing(th, "compact") EXCEPT
                  !.pc = AfterCompact(th.job)])

CompactStep(w, t, code) ==
    BorgStep(w, t, "compact", AfterCompact(w.threads[t].job),
             "Borg compact failed", code)

\* the dump_duration of _execute_db_backup, int(time.time() - dump_start)
DumpSeconds == 2

\* _execute_db_backup, step 1: create_dumps
DbDumpStep(w, t, result) ==
    LET th == Ran(w.threads[t], "db_dump")
    IN CASE result = "files" ->
              [With(w, t, [th EXCEPT
                    !.dump_files = DumpFiles,
                    !.db = [@ EXCEPT !["db_dump"] = <<DumpSeconds, 1>>],
                    !.pc = "db_archive"])
                 EXCEPT !.dump_dir = @ \cup DumpFiles]
         [] result = "empty" ->
              \* return None, None, ...: all eight values None
              With(w, t, [th EXCEPT !.pc = AfterDb(th.job)])
         [] result = "raise" ->
              With(w, t, Caught(Failing(th, "db_dump"), "Database dump failed"))
         [] result = "nonzero" ->
              [With(w, t, Caught(Failing(th, "db_dump"), "Database dump failed"))
                 EXCEPT !.dump_dir = @ \cup LeftByFailedDump({"table_a.sql"}, result)]
         [] result = "timeout" ->
              [With(w, t, Caught(Failing(th, "db_dump"), "Database dump timed out"))
                 EXCEPT !.dump_dir = @ \cup LeftByFailedDump({"table_a.sql"}, result)]

\* step 2: borg create of the dump files; a failure is raised inside try
DbArchiveStep(w, t, code) ==
    LET th == Ran(w.threads[t], "db_archive")
    IN IF code = "zero"
          THEN With(w, t, [th EXCEPT
                  !.db = [@ EXCEPT !["db_archive"] = ParseTimeOutput(time_stderr)],
                  !.pc = "db_prune"])
          ELSE With(w, t, [Failing(th, "db_archive") EXCEPT
                  !.exc = "Database archive creation failed",
                  !.pc = "db_cleanup"])

\* _prune_db_archives_timed / _execute_db_compact_timed: a non-zero exit is
\* logged and (0, 1) is returned
DbTimedStep(w, t, stage, next, code) ==
    LET th == IF code = "zero" THEN Ran(w.threads[t], stage)
                               ELSE Failing(Ran(w.threads[t], stage), stage)
        result == IF code = "zero" THEN ParseTimeOutput(time_stderr)
                                   ELSE <<0, 1>>
    IN With(w, t, [th EXCEPT !.db = [@ EXCEPT ![stage] = result],
                             !.pc = next])

DbPruneStep(w, t, code) == DbTimedStep(w, t, "db_prune", "db_compact", code)
DbCompactStep(w, t, code) == DbTimedStep(w, t, "db_compact", "db_cleanup", code)

\* a cleanup loop without the inner try: the first failing os.remove ends it
RemovedFilesUntilFailure(dump_files, remove_fails) ==
    IF remove_fails = {} THEN dump_files ELSE {}

\* the dump files the finally clause removes: os.remove on every file, each
\* in its own try, failing on the files of remove_fails
RemovedFiles(dump_files, remove_fails) == dump_files \ remove_fails

\* the finally clause of _execute_db_backup; then the return value is
\* unpacked by execute_job, or the pending exception reaches its except
DbCleanupStep(w, t, remove_fails) ==
    LET th == [w.threads[t] EXCEPT
                  !.remove_failed = remove_fails \cap w.threads[t].dump_files]
        w1 == [w EXCEPT !.dump_dir =
                  @ \ RemovedFiles(th.dump_files, th.remove_failed)]
    IN IF th.exc = None
          THEN With(w1, t, [th EXCEPT
                  !.m = [s \in MetricStages |->
                           IF s \in DbStages THEN th.db[s] ELSE @[s]],
                  !.pc = AfterDb(th.job)])
          ELSE With(w1, t, Caught(th, th.exc))

\* a sync whose failure is logged and not raised again
S3SyncStepLogged(w, t, result) ==
    LET th == Ran(w.threads[t], "s3_sync")
    IN IF result = "synced"
          THEN With(w, t, [th EXCEPT !.pc = AfterSync(th.job)])
          ELSE With(w, t, [Failing(th, "s3_sync") EXCEPT !.pc = AfterSync(th.job)])

\* _execute_s3_sync
S3SyncStep(w, t, result) ==
    LET th == Ran(w.threads[t], "s3_sync")
    IN IF result = "synced"
          THEN With(w, t, [th EXCEPT !.pc = AfterSync(th.job)])
          ELSE With(w, t, Caught(Failing(th, "s3_sync"), "S3 sync failed"))

\* _update_log_entry(..., 'completed', <all collected metrics>)
UpdateCompletedStep(w, t) ==
    LET th == w.threads[t]
    IN [With(w, t, [th EXCEPT !.pc = "notify_success"])
          EXCEPT !.job_logs[th.log_entry_id] =
                    UpdateLogEntry(@, "set", "completed", th.m, None)]

\* a success notification sent without a try of its own, by a service that
\* lets the errors of its sends through
NotifySuccessStepUnguarded(w, t, delivery) ==
    LET th == [w.threads[t] EXCEPT !.notified = delivery]
    IN IF delivery = "delivered"
          THEN With(w, t, [th EXCEPT !.pc = "returned"])
          ELSE With(w, t, Caught(th, "Notification failed"))

\* _send_success_notification: send_notification inside try/except, both
\* outcomes end the function; execute_job then returns
NotifySuccessStep(w, t, delivery) ==
    LET th == [w.threads[t] EXCEPT !.notified = delivery]
    IN IF SendNotification(delivery) = "returns"
          THEN With(w, t, [th EXCEPT !.pc = "returned"])
          ELSE With(w, t, [th EXCEPT !.pc = "returned"])

\* the metrics the except clause passes to _update_log_entry: none
FailedMetrics(m) == [s \in MetricStages |-> NoMetric]

\* an except clause that sends the notification without having written
\* the row
UpdateFailedStepDeferred(w, t) ==
    With(w, t, [w.threads[t] EXCEPT !.pc = "notify_failure"])

\* except clause: _update_log_entry(log_entry_id, finished_at, 'failed',
\* error_message=str(e))
UpdateFailedStep(w, t) ==
    LET th == w.threads[t]
    IN [With(w, t, [th EXCEPT !.pc = "notify_failure"])
          EXCEPT !.job_logs[th.log_entry_id] =
                    UpdateLogEntry(@, "set", "failed", FailedMetrics(th.m), th.error)]

\* a failure notification sent without a try of its own: the error of the
\* send leaves the except clause in place of the error of the run
NotifyFailureStepUnguarded(w, t, delivery) ==
    LET th == [w.threads[t] EXCEPT !.notified = delivery]
    IN IF delivery = "delivered"
          THEN With(w, t, [th EXCEPT !.pc = "raised"])
          ELSE With(w, t, [th EXCEPT !.pc = "raised",
                                     !.error = "Notification failed"])

\* _send_failure_notification: send_notification inside try/except; then
\* the bare raise of the except clause
NotifyFailureStep(w, t, delivery) ==
    LET th == [w.threads[t] EXCEPT !.notified = delivery]
    IN IF SendNotification(delivery) = "returns"
          THEN With(w, t, [th EXCEPT !.pc = "raised"])
          ELSE With(w, t, [th EXCEPT !.pc = "raised"])

\* an except clause whose notification is sent outside a try: its error
\* ends the target function before the job id is discarded
JobThreadExceptStepUnguarded(w, t, delivery) ==
    IF delivery = "delivered"
       THEN With(w, t, [w.threads[t] EXCEPT !.pc = "finally",
                                            !.thread_notified = delivery])
       ELSE With(w, t, Finished(w.threads[t]))

\* except clause of _execute_job_in_thread: log, send a failure notification
\* inside try/except
JobThreadExceptStep(w, t, delivery) ==
    LET th == [w.threads[t] EXCEPT !.thread_notified = delivery]
    IN IF SendNotification(delivery) = "returns"
          THEN With(w, t, [th EXCEPT !.pc = "finally"])
          ELSE With(w, t, [th EXCEPT !.pc = "finally"])

\* a target function that ends without discarding the job id
JobThreadFinallyStepKeepsId(w, t) == With(w, t, Finished(w.threads[t]))

\* finally clause of _execute_job_in_thread
JobThreadFinallyStep(w, t) ==
    [With(w, t, Finished(w.threads[t]))
       EXCEPT !.running_jobs = @ \ {w.threads[t].jid}]

\* run_job: both outcomes of execute_job are only logged
RunJobEndStep(w, t) == With(w, t, Finished(w.threads[t]))

\* the step of thread t at its position, under the plan
Step(w, t, plan) ==
    LET th == w.threads[t]
        pc == th.pc
    IN CASE pc = "thread_start"     -> ThreadStartStep(w, t)
         [] pc = "validate"         -> ValidateStep(w, t)
         [] pc = "create_log_entry" -> CreateLogEntryStep(w, t)
         [] pc = "pre_command"      -> PreCommandStep(w, t, plan.pre_command)
         [] pc = "repository"       -> RepositoryStep(w, t, plan.repository)
         [] pc = "create"           -> CreateStep(w, t, plan.create)
         [] pc = "prune"            -> PruneStep(w, t, plan.prune)
         [] pc = "compact"          -> CompactStep(w, t, plan.compact)
         [] pc = "db_dump"          -> DbDumpStep(w, t, plan.db_dump)
         [] pc = "db_archive"       -> DbArchiveStep(w, t, plan.db_archive)
         [] pc = "db_prune"         -> DbPruneStep(w, t, plan.db_prune)
         [] pc = "db_compact"       -> DbCompactStep(w, t, plan.db_compact)
         [] pc = "db_cleanup"       -> DbCleanupStep(w, t, plan.db_cleanup)
         [] pc = "s3_sync"          -> S3SyncStep(w, t, plan.s3_sync)
         [] pc = "post_command"     -> PostCommandStep(w, t, plan.post_command)
         [] pc = "update_completed" -> UpdateCompletedStep(w, t)
         [] pc = "notify_success"   -> NotifySuccessStep(w, t, plan.notify)
         [] pc = "update_failed"    -> UpdateFailedStep(w, t)
         [] pc = "notify_failure"   -> NotifyFailureStep(w, t, plan.notify)
         [] pc = "raised" /\ th.path = "scheduled" ->
                                       JobThreadExceptStep(w, t, plan.thread_notify)
         [] pc \in {"returned", "finally"} /\ th.path = "scheduled" ->
                                       JobThreadFinallyStep(w, t)
         [] pc \in {"returned", "raised"} /\ th.path = "manual" ->
                                       RunJobEndStep(w, t)

\* The positions at which a thread waits: for the operating system to start
\* it, for the job store, for the archiving tool.
WaitPositions == {"thread_start", "create_log_entry", "create", "done", "killed"}

\* thread t runs on from where it is to the next position at which it waits
RECURSIVE RunOn(_, _, _)
RunOn(w, t, plan) ==
    IF w.threads[t].pc \in WaitPositions THEN w
    ELSE RunOn(Step(w, t, plan), t, plan)

----------------------------------------------------------------------------
(* Cron schedules.  A schedule fires at the minutes of the local clock its *)
(* minute field selects; croniter works on whole minutes.                  *)

\* minutes between two fire times of the schedule; 0 for a string croniter
\* rejects
CronPeriod(schedule) ==
    CASE schedule = "* * * * *"   -> 1
      [] schedule = "*/2 * * * *" -> 2
      [] schedule = "1 * * * *"   -> 60
      [] OTHER -> 0

\* the minute of the first fire time at or after 00:00
CronOffset(schedule) == IF schedule = "1 * * * *" THEN 1 ELSE 0

CronValid(schedule) == CronPeriod(schedule) > 0

\* croniter.get_next: the first fire time after t
GetNext(schedule, t) ==
    LET p == CronPeriod(schedule) * MINUTE
        o == CronOffset(schedule) * MINUTE
    IN (((t - o) \div p) + 1) * p + o

\* a get_prev that returns cur itself when cur is a fire time
GetPrevInclusive(schedule, cur) ==
    LET p == CronPeriod(schedule) * MINUTE
        o == CronOffset(schedule) * MINUTE
    IN ((cur - o) \div p) * p + o

\* croniter.get_prev: the last fire time before cur
GetPrev(schedule, cur) ==
    LET p == CronPeriod(schedule) * MINUTE
        o == CronOffset(schedule) * MINUTE
    IN ((cur - 1 - o) \div p) * p + o

\* the COUNT(*) of should_run_job: started_at holds the isoformat text of a
\* UTC instant, the bounds are the isoformat texts of local naive instants;
\* the texts are compared as text, which orders them by their wall-clock
\* fields
CountRuns(job_id, prev_run_time, current_time) ==
    Cardinality({ i \in DOMAIN job_logs :
                    /\ job_logs[i].job_id = job_id
                    /\ job_logs[i].started_at >= prev_run_time
                    /\ job_logs[i].started_at < current_time })

\* a due-check that waits for every running job, not only for its own
ShouldRunJobSerial(schedule, current_time, job_id) ==
    IF running_jobs # {} THEN FALSE
    ELSE IF ~CronValid(schedule) THEN FALSE
    ELSE LET next_run_time == GetNext(schedule, current_time)
             prev_run_time == GetPrev(schedule, next_run_time)
             time_since_last_schedule == current_time - prev_run_time
         IN IF time_since_last_schedule > GRACE_SECONDS THEN FALSE
            ELSE CountRuns(job_id, prev_run_time, current_time) = 0

\* should_run_job
ShouldRunJob(schedule, current_time, job_id) ==
    IF job_id \in running_jobs THEN FALSE
    ELSE IF ~CronValid(schedule) THEN FALSE
    ELSE LET next_run_time == GetNext(schedule, current_time)
             prev_run_time == GetPrev(schedule, next_run_time)
             time_since_last_schedule == current_time - prev_run_time
         IN IF time_since_last_schedule > GRACE_SECONDS THEN FALSE
            ELSE CountRuns(job_id, prev_run_time, current_time) = 0

\* the fire time a due-check at current_time is about
FireTime(schedule, current_time) ==
    GetPrev(schedule, GetNext(schedule, current_time))

\* json.loads of the stored source_directories text
JsonValue == [x \in {"[\"/data\"]", "[]"} |->
                 IF x = "[]" THEN <<>> ELSE <<"/data">>]
JsonLoads(x) == JsonValue[x]

\* get_pending_jobs: the dict built for a due job
PendingJob(row) ==
    JobDict(row.id, row.name, row.schedule,
            IF Truthy(row.compression) THEN row.compression ELSE "lz4",
            IF row.keep_daily \in {NULL, 0} THEN 7 ELSE row.keep_daily,
            JsonLoads(row.source_directories),
            row.pre_command, row.post_command,
            IF Truthy(row.s3_config) /\ DecryptOk(row.s3_config)
               THEN DecryptData(row.s3_config) ELSE None,
            IF Truthy(row.db_config) /\ DecryptOk(row.db_config)
               THEN DecryptData(row.db_config) ELSE None,
            IF Truthy(row.repository_passphrase)
               THEN DecryptData(row.repository_passphrase) ELSE None)

\* get_pending_jobs: the ids of the jobs returned as pending
PendingJobs(current_time) ==
    { j \in DOMAIN backup_jobs :
        ShouldRunJob(backup_jobs[j].schedule, current_time, j) }

\* get_pending_jobs returns: the table can be read and json.loads accepts
\* the source_directories of every due row (the call is in no try block)
GetPendingJobsOk(store_ok, current_time) ==
    /\ store_ok
    /\ \A j \in PendingJobs(current_time) :
          backup_jobs[j].source_directories \in DOMAIN JsonValue

\* _handle_trigger_job: the dict built from the stored row; a text json.loads
\* rejects is split at its commas
TriggerJob(row) ==
    JobDict(row.id, row.name, row.schedule, row.compression, row.keep_daily,
            IF row.source_directories \in DOMAIN JsonValue
               THEN JsonLoads(row.source_directories)
               ELSE <<row.source_directories>>,
            row.pre_command, row.post_command,
            IF Truthy(row.s3_config) /\ DecryptOk(row.s3_config)
               THEN DecryptData(row.s3_config) ELSE None,
            IF Truthy(row.db_config) /\ DecryptOk(row.db_config)
               THEN DecryptData(row.db_config) ELSE None,
            IF Truthy(row.repository_passphrase)
               THEN DecryptData(row.repository_passphrase) ELSE None)

----------------------------------------------------------------------------
(* BackupScheduler.run: one iteration of the loop, at the end of its sleep *)

Min(a, b) == IF a < b THEN a ELSE b

\* the instants at which the current sleep may end
WakeTimes == next_poll..Min(next_poll + MaxDrift, Horizon)

\* the sequence of the elements of S, by ascending id
RECURSIVE SeqOf(_)
SeqOf(S) == IF S = {} THEN <<>>
            ELSE LET x == CHOOSE y \in S : \A z \in S : y <= z
                 IN <<x>> \o SeqOf(S \ {x})

\* the threads started for the pending jobs, in the order of the rows
Dispatch(pending, current_time) ==
    LET ids == SeqOf(pending)
    IN [i \in 1..Len(ids) |->
          NewThread(ids[i], "scheduled",
                    FireTime(backup_jobs[ids[i]].schedule, current_time),
                    PendingJob(backup_jobs[ids[i]]))]

\* a run record was started in second t.  Of the clock reads that fall into
\* one second, that of the waking loop is the first: a run that started
\* before the loop woke up started in an earlier second
ClockReadAt(t) == \E i \in DOMAIN job_logs : job_logs[i].started_at = t

\* the number of threads started so far on a path
Started(path) == Cardinality({t \in DOMAIN threads : threads[t].path = path})

\* a loop that starts every job with a valid schedule when the store could
\* not be read
PollThreadsOnFailure(store_ok, current_time) ==
    IF store_ok
       THEN Dispatch(PendingJobs(current_time), current_time)
       ELSE Dispatch({j \in DOMAIN backup_jobs :
                        CronValid(backup_jobs[j].schedule)}, current_time)

\* the threads one iteration starts: one for each pending job, none when
\* get_pending_jobs raises
PollThreads(store_ok, current_time) ==
    IF store_ok
       THEN Dispatch(PendingJobs(current_time), current_time)
       ELSE <<>>

\* the sleep that ends the iteration: time.sleep(30), or time.sleep(60) in
\* the except clause
PollSleep(store_ok) == IF store_ok THEN SLEEP_SECONDS ELSE RETRY_SECONDS

\* an iteration that asks for the pending jobs whatever minute it last
\* checked
PollUnguarded(wake_time) ==
    /\ wake_time >= next_poll
    /\ wake_time > now \/ (wake_time = now /\ ~ClockReadAt(now))
    /\ now' = wake_time
    /\ LET current_time == wake_time + tz_offset
       IN /\ last_checked_minute' = current_time - (current_time % MINUTE)
          /\ \E store_ok \in BOOLEAN :
                LET ok == GetPendingJobsOk(store_ok, current_time)
                    started == PollThreads(ok, current_time)
                IN /\ Started("scheduled") + Len(started) <= MaxRuns
                   /\ threads' = threads \o started
                   /\ next_poll' = wake_time + PollSleep(ok)
    /\ UNCHANGED <<tz_offset, backup_jobs, job_logs, running_jobs, repo_exists,
                   dump_dir, env_passphrase, time_stderr, restarts, archives,
                   pruned>>

\* the sleep ends at wake_time; one iteration of the while loop follows
Poll(wake_time) ==
    /\ wake_time >= next_poll
    /\ wake_time > now \/ (wake_time = now /\ ~ClockReadAt(now))
    /\ now' = wake_time
    /\ LET current_time == wake_time + tz_offset
           current_minute == current_time - (current_time % MINUTE)
       IN IF last_checked_minute # current_minute
             THEN /\ last_checked_minute' = current_minute
                  /\ \E store_ok \in BOOLEAN :
                       LET ok == GetPendingJobsOk(store_ok, current_time)
                           started == PollThreads(ok, current_time)
                       IN /\ Started("scheduled") + Len(started) <= MaxRuns
                          /\ threads' = threads \o started
                          /\ next_poll' = wake_time + PollSleep(ok)
             ELSE /\ UNCHANGED <<last_checked_minute, threads>>
                  /\ next_poll' = wake_time + SLEEP_SECONDS
    /\ UNCHANGED <<tz_offset, backup_jobs, job_logs, running_jobs, repo_exists,
                   dump_dir, env_passphrase, time_stderr, restarts, archives,
                   pruned>>

\* the clock reaches the next minute boundary while the loop sleeps
Advance ==
    /\ LET t == (now \div MINUTE + 1) * MINUTE
       IN /\ t <= next_poll
          /\ t <= Horizon
          /\ now' = t
    /\ UNCHANGED <<tz_offset, backup_jobs, job_logs, running_jobs,
                   last_checked_minute, next_poll, threads, repo_exists,
                   dump_dir, env_passphrase, time_stderr, restarts, archives,
                   pruned>>

\* POST /api/jobs/<id>/trigger: _handle_trigger_job starts run_job in a thread
TriggerJobNow(job_id) ==
    /\ job_id \in DOMAIN backup_jobs
    /\ Started("manual") < MaxManual
    /\ threads' = Append(threads,
          NewThread(job_id, "manual", NULL, TriggerJob(backup_jobs[job_id])))
    /\ UNCHANGED <<now, tz_offset, backup_jobs, running_jobs, last_checked_minute,
                   next_poll, env_passphrase, time_stderr, restarts, job_logs,
                   repo_exists, dump_dir, archives, pruned>>

\* the process is killed and started again: every thread dies where it is,
\* the memory of the scheduler is lost, the tables and files stay
Restart ==
    /\ restarts < MaxRestarts
    /\ restarts' = restarts + 1
    /\ threads' = [t \in DOMAIN threads |->
                     IF threads[t].pc = "done" THEN threads[t]
                     ELSE [Finished(threads[t]) EXCEPT !.pc = "killed"]]
    /\ running_jobs' = {}
    /\ last_checked_minute' = NULL
    /\ next_poll' = now
    /\ UNCHANGED <<now, tz_offset, backup_jobs, job_logs, repo_exists,
                   dump_dir, env_passphrase, time_stderr, archives, pruned>>

----------------------------------------------------------------------------
(* Archive names.  A name is the sequence of its characters.               *)

ArchiveJobNames == { <<"a">>, <<"a", "_", "d", "b">> }

\* started_at.strftime('%Y%m%d%H%MZ'): the fields down to the minute; of
\* these the minute field is kept
Strftime(started_at) ==
    LET minute == (started_at \div MINUTE) % MINUTE
        digit == <<"0", "1", "2", "3", "4", "5", "6", "7", "8", "9">>
    IN << digit[(minute \div 10) + 1], digit[(minute % 10) + 1], "Z" >>

\* the archive name of _execute_borg_create
ArchiveName(name, started_at) == name \o <<"_">> \o Strftime(started_at)

\* the archive name of _execute_db_backup
DbArchiveName(name, started_at) ==
    name \o <<"_", "d", "b", "_">> \o Strftime(started_at)

\* the --glob-archives argument of _execute_borg_prune
PruneGlob(name) == name \o <<"_", "*">>

\* the --glob-archives argument of _prune_db_archives_timed
DbPruneGlob(name) == name \o <<"_", "d", "b", "_", "*">>

\* borg's match of an archive name against a glob: * stands for any
\* characters, every other character for itself
RECURSIVE GlobMatch(_, _)
GlobMatch(glob, name) ==
    IF glob = <<>> THEN name = <<>>
    ELSE IF Head(glob) = "*"
            THEN \/ GlobMatch(Tail(glob), name)
                 \/ name # <<>> /\ GlobMatch(glob, Tail(name))
            ELSE /\ name # <<>>
                 /\ Head(name) = Head(glob)
                 /\ GlobMatch(Tail(glob), Tail(name))

\* the repository of a job is the directory borgspace_dir/<job name>
NoArchives == [n \in ArchiveJobNames |-> {}]
NothingPruned == [job |-> <<>>, stage |-> None, selected |-> {}]

----------------------------------------------------------------------------
(* The scheduler with its job threads and the manual trigger.  The jobs    *)
(* have no hooks, no database and no object-storage configuration.         *)

TzOffsets == {0, 3600}
Schedules == {"* * * * *", "*/2 * * * *"}

StoredJob(id, schedule) ==
    [id |-> id, name |-> "nightly", schedule |-> schedule,
     compression |-> "lz4", keep_daily |-> 7,
     source_directories |-> "[\"/data\"]",
     pre_command |-> None, post_command |-> None,
     s3_config |-> None, db_config |-> None,
     repository_passphrase |-> "enc:secret"]

\* the rows the job table may hold for a job: a schedule croniter accepts
\* with a passphrase or, as after the migration that added the column,
\* without one; or a schedule croniter rejects
StoredJobs(id) ==
    { StoredJob(id, sch) : sch \in Schedules }
    \cup { [StoredJob(id, sch) EXCEPT !.repository_passphrase = None] :
              sch \in Schedules }
    \cup { StoredJob(id, "every minute") }

Init ==
    /\ now = 0
    /\ tz_offset \in TzOffsets
    /\ backup_jobs \in [JobIds -> StoredJobs(1)]
    /\ job_logs = <<>>
    /\ running_jobs = {}
    /\ last_checked_minute = NULL
    /\ next_poll = 0
    /\ threads = <<>>
    /\ repo_exists = [j \in JobIds |-> TRUE]
    /\ dump_dir = {}
    /\ env_passphrase = None
    /\ time_stderr = [elapsed |-> 3, maxrss_kb |-> 20480]
    /\ restarts = 0
    /\ archives = NoArchives
    /\ pruned = NothingPruned

\* the plans for a job without hooks, database and object-storage parts
CorePlan == [pre_command |-> "zero", repository |-> "zero", create |-> "zero",
             prune |-> "zero", compact |-> "zero", db_dump |-> "empty",
             db_archive |-> "zero", db_prune |-> "zero", db_compact |-> "zero",
             db_cleanup |-> {}, s3_sync |-> "synced", post_command |-> "zero",
             notify |-> "delivered", thread_notify |-> "delivered"]

CorePlans == { [CorePlan EXCEPT !.create = c] : c \in ExitCodes }

\* thread t, waiting at position pc, takes its step and runs on to the next
\* position at which it waits; the steps in between touch nothing another
\* thread or the loop reads
RunsFrom(t, pc) ==
    /\ threads[t].pc = pc
    /\ \E plan \in CorePlans : Apply(RunOn(Step(World, t, plan), t, plan))
    /\ UNCHANGED envVars

\* the thread starts: running_jobs.add, started_at, validation
StartThread(t) == RunsFrom(t, "thread_start")

\* the row of the run is inserted, the repository is looked up
BeginRun(t) == RunsFrom(t, "create_log_entry")

\* borg create, prune and compact run, the row is updated, the notification
\* is sent and the thread ends
FinishRun(t) == RunsFrom(t, "create")

Next ==
    \/ \E w \in WakeTimes : Poll(w)
    \/ Advance
    \/ Restart
    \/ \E t \in DOMAIN threads : StartThread(t)
    \/ \E t \in DOMAIN threads : BeginRun(t)
    \/ \E t \in DOMAIN threads : FinishRun(t)

Spec == Init /\ [][Next]_vars

\* the scheduler with two jobs: one is due every minute, the other at the
\* first minute of the hour.  The row of the first job is well-formed, or
\* holds a passphrase written under an encryption key that is gone, or a
\* source_directories text that is a path and no JSON list, or a schedule
\* croniter rejects
TwoJobInit ==
    /\ now = 0
    /\ tz_offset \in TzOffsets
    /\ \E first \in
           { StoredJob(1, "* * * * *"),
             [StoredJob(1, "* * * * *") EXCEPT
                !.repository_passphrase = "enc:garbled"],
             [StoredJob(1, "* * * * *") EXCEPT
                !.source_directories = "/data"],
             StoredJob(1, "every minute") } :
          backup_jobs = << first,
                           [StoredJob(2, "1 * * * *") EXCEPT !.name = "hourly"] >>
    /\ job_logs = <<>>
    /\ running_jobs = {}
    /\ last_checked_minute = NULL
    /\ next_poll = 0
    /\ threads = <<>>
    /\ repo_exists = <<TRUE, TRUE>>
    /\ dump_dir = {}
    /\ env_passphrase = None
    /\ time_stderr = [elapsed |-> 3, maxrss_kb |-> 20480]
    /\ restarts = 0
    /\ archives = NoArchives
    /\ pruned = NothingPruned

TwoJobSpec == TwoJobInit /\ [][Next]_vars

\* the same with the manual trigger of the web server
TriggerNext ==
    \/ \E w \in WakeTimes : Poll(w)
    \/ Advance
    \/ Restart
    \/ \E j \in JobIds : TriggerJobNow(j)
    \/ \E t \in DOMAIN threads : StartThread(t)
    \/ \E t \in DOMAIN threads : BeginRun(t)
    \/ \E t \in DOMAIN threads : FinishRun(t)

TriggerSpec == Init /\ [][TriggerNext]_vars

----------------------------------------------------------------------------
(* One call of execute_job, as run_job makes it, for every combination of  *)
(* the optional parts of a job.                                            *)

ExecJobs ==
    { JobDict(1, "nightly", "* * * * *", "lz4", 7, <<"/data">>,
              pre, post, s3, db, pw) :
        pre \in {None, "pre.sh"}, post \in {None, "post.sh"},
        s3 \in {None, "bucket"}, db \in {None, "postgresql"},
        pw \in {None, "secret"} }

\* job dicts that _validate_job_config rejects: a name that is no string, an
\* unknown compression, no source directory, a blank source directory, a
\* negative retention count
RejectedJobs ==
    { JobDict(1, None, "* * * * *", "lz4", 7, <<"/data">>,
              None, None, None, None, "secret"),
      JobDict(1, "nightly", "* * * * *", "gzip", 7, <<"/data">>,
              None, None, None, None, "secret"),
      JobDict(1, "nightly", "* * * * *", "lz4", 7, <<>>,
              None, None, None, None, "secret"),
      JobDict(1, "nightly", "* * * * *", "lz4", 7, <<" ">>,
              None, None, None, None, "secret"),
      JobDict(1, "nightly", "* * * * *", "lz4", -1, <<"/data">>,
              "pre.sh", None, None, None, "secret") }

ExecInit ==
    /\ now = 0
    /\ tz_offset = 0
    /\ \/ /\ backup_jobs = [j \in JobIds |-> StoredJob(j, "* * * * *")]
          /\ \E job \in ExecJobs \cup RejectedJobs, path \in {"manual", "scheduled"} :
                threads = <<NewThread(job.id, path,
                                      IF path = "manual" THEN NULL ELSE 0, job)>>
       \* the job dict is the one the scheduler or the trigger builds from
       \* a stored row with a sync config, which the encryption key of the
       \* process can or cannot decrypt
       \/ \E c \in {"enc:bucket", "enc:garbled"} :
             LET row == [StoredJob(1, "* * * * *") EXCEPT !.s3_config = c]
             IN /\ backup_jobs = [j \in JobIds |-> row]
                /\ \/ threads = <<NewThread(1, "scheduled", 0, PendingJob(row))>>
                   \/ threads = <<NewThread(1, "manual", NULL, TriggerJob(row))>>
    /\ job_logs = <<>>
    /\ running_jobs = {}
    /\ last_checked_minute = NULL
    /\ next_poll = 0
    /\ repo_exists \in [JobIds -> BOOLEAN]
    /\ dump_dir = {}
    /\ env_passphrase \in {None, "envsecret"}
    /\ time_stderr \in TimeOutputs
    /\ restarts = 0
    /\ archives = NoArchives
    /\ pruned = NothingPruned

\* one action per position of the call
ThreadStart(t) ==
    /\ threads[t].pc = "thread_start"
    /\ Apply(ThreadStartStep(World, t))
    /\ UNCHANGED envVars

Validate(t) ==
    /\ threads[t].pc = "validate"
    /\ Apply(ValidateStep(World, t))
    /\ UNCHANGED envVars

CreateLogEntry(t) ==
    /\ threads[t].pc = "create_log_entry"
    /\ Apply(CreateLogEntryStep(World, t))
    /\ UNCHANGED envVars

PreCommand(t) ==
    /\ threads[t].pc = "pre_command"
    /\ \E o \in HookOutcomes : Apply(PreCommandStep(World, t, o))
    /\ UNCHANGED envVars

Repository(t) ==
    /\ threads[t].pc = "repository"
    /\ \E o \in ExitCodes : Apply(RepositoryStep(World, t, o))
    /\ UNCHANGED envVars

Create(t) ==
    /\ threads[t].pc = "create"
    /\ \E o \in ExitCodes : Apply(CreateStep(World, t, o))
    /\ UNCHANGED envVars

Prune(t) ==
    /\ threads[t].pc = "prune"
    /\ \E o \in ExitCodes : Apply(PruneStep(World, t, o))
    /\ UNCHANGED envVars

Compact(t) ==
    /\ threads[t].pc = "compact"
    /\ \E o \in ExitCodes : Apply(CompactStep(World, t, o))
    /\ UNCHANGED envVars

DbDump(t) ==
    /\ threads[t].pc = "db_dump"
    /\ \E o \in DumpResults : Apply(DbDumpStep(World, t, o))
    /\ UNCHANGED envVars

DbArchive(t) ==
    /\ threads[t].pc = "db_archive"
    /\ \E o \in ExitCodes : Apply(DbArchiveStep(World, t, o))
    /\ UNCHANGED envVars

DbPrune(t) ==
    /\ threads[t].pc = "db_prune"
    /\ \E o \in ExitCodes : Apply(DbPruneStep(World, t, o))
    /\ UNCHANGED envVars

DbCompact(t) ==
    /\ threads[t].pc = "db_compact"
    /\ \E o \in ExitCodes : Apply(DbCompactStep(World, t, o))
    /\ UNCHANGED envVars

DbCleanup(t) ==
    /\ threads[t].pc = "db_cleanup"
    /\ \E o \in SUBSET DumpFiles : Apply(DbCleanupStep(World, t, o))
    /\ UNCHANGED envVars

S3Sync(t) ==
    /\ threads[t].pc = "s3_sync"
    /\ \E o \in SyncResults : Apply(S3SyncStep(World, t, o))
    /\ UNCHANGED envVars

PostCommand(t) ==
    /\ threads[t].pc = "post_command"
    /\ \E o \in HookOutcomes : Apply(PostCommandStep(World, t, o))
    /\ UNCHANGED envVars

UpdateCompleted(t) ==
    /\ threads[t].pc = "update_completed"
    /\ Apply(UpdateCompletedStep(World, t))
    /\ UNCHANGED envVars

NotifySuccess(t) ==
    /\ threads[t].pc = "notify_success"
    /\ \E d \in Deliveries : Apply(NotifySuccessStep(World, t, d))
    /\ UNCHANGED envVars

UpdateFailed(t) ==
    /\ threads[t].pc = "update_failed"
    /\ Apply(UpdateFailedStep(World, t))
    /\ UNCHANGED envVars

NotifyFailure(t) ==
    /\ threads[t].pc = "notify_failure"
    /\ \E d \in Deliveries : Apply(NotifyFailureStep(World, t, d))
    /\ UNCHANGED envVars

RunJobEnd(t) ==
    /\ threads[t].path = "manual"
    /\ threads[t].pc \in {"returned", "raised"}
    /\ Apply(RunJobEndStep(World, t))
    /\ UNCHANGED envVars

JobThreadExcept(t) ==
    /\ threads[t].path = "scheduled"
    /\ threads[t].pc = "raised"
    /\ \E d \in Deliveries : Apply(JobThreadExceptStep(World, t, d))
    /\ UNCHANGED envVars

JobThreadFinally(t) ==
    /\ threads[t].path = "scheduled"
    /\ threads[t].pc \in {"returned", "finally"}
    /\ Apply(JobThreadFinallyStep(World, t))
    /\ UNCHANGED envVars

ExecNext ==
    \/ \E t \in DOMAIN threads : ThreadStart(t)
    \/ \E t \in DOMAIN threads : Validate(t)
    \/ \E t \in DOMAIN threads : CreateLogEntry(t)
    \/ \E t \in DOMAIN threads : PreCommand(t)
    \/ \E t \in DOMAIN threads : Repository(t)
    \/ \E t \in DOMAIN threads : Create(t)
    \/ \E t \in DOMAIN threads : Prune(t)
    \/ \E t \in DOMAIN threads : Compact(t)
    \/ \E t \in DOMAIN threads : DbDump(t)
    \/ \E t \in DOMAIN threads : DbArchive(t)
    \/ \E t \in DOMAIN threads : DbPrune(t)
    \/ \E t \in DOMAIN threads : DbCompact(t)
    \/ \E t \in DOMAIN threads : DbCleanup(t)
    \/ \E t \in DOMAIN threads : S3Sync(t)
    \/ \E t \in DOMAIN threads : PostCommand(t)
    \/ \E t \in DOMAIN threads : UpdateCompleted(t)
    \/ \E t \in DOMAIN threads : NotifySuccess(t)
    \/ \E t \in DOMAIN threads : UpdateFailed(t)
    \/ \E t \in DOMAIN threads : NotifyFailure(t)
    \/ \E t \in DOMAIN threads : RunJobEnd(t)
    \/ \E t \in DOMAIN threads : JobThreadExcept(t)
    \/ \E t \in DOMAIN threads : JobThreadFinally(t)

ExecSpec == ExecInit /\ [][ExecNext]_vars

----------------------------------------------------------------------------
(* Properties of one call of execute_job (ExecSpec) *)

Last(seq) == seq[Len(seq)]

\* execute_job has returned or raised
Ended(th) == th.pc \in {"returned", "raised"}

\* the failure messages of the fatal core stages, and the stage of each
CoreFailures == {"Could not initialize repository: Passphrase is required",
                 "Failed to initialize repository",
                 "Borg create failed", "Borg prune failed", "Borg compact failed"}

FailedStage(msg) ==
    CASE msg = "Borg create failed"  -> "create"
      [] msg = "Borg prune failed"   -> "prune"
      [] msg = "Borg compact failed" -> "compact"
      [] OTHER -> "repository"

\* C5: within one run the stages that execute do so in the fixed order
\* pre-command, repository, create, prune, compact, db-dump, db-archive,
\* db-prune, db-compact, sync, post-command: the sequence of executed stages
\* is strictly ascending in that order, whatever optional parts the job has
C5_StagesInFixedOrder ==
    \A t \in DOMAIN threads :
        \A i, j \in DOMAIN threads[t].trace :
            i < j => StageRank(threads[t].trace[i]) < StageRank(threads[t].trace[j])

\* a run of a job with every optional part executed all eleven stages
C5_Witness ==
    \E t \in DOMAIN threads :
        /\ threads[t].pc = "returned"
        /\ threads[t].trace = Stages

\* C6: when a fatal core stage fails, the failing stage is the last stage
\* the run executes, and the run ends with its row 'failed' and a non-null
\* error message; after a failed create the row holds no prune and no
\* compact metrics
C6_FatalCoreStage ==
    \A t \in DOMAIN threads :
        LET th == threads[t]
        IN th.error \in CoreFailures =>
              /\ Last(th.trace) = FailedStage(th.error)
              /\ th.pc \in {"update_failed", "notify_failure", "raised", "finally"}
              /\ Ended(th) =>
                    LET row == job_logs[th.log_entry_id]
                    IN /\ row.status = "failed"
                       /\ row.error_message # None
                       /\ th.error = "Borg create failed" =>
                             /\ RowMetric(row, "prune") = NoMetric
                             /\ RowMetric(row, "compact") = NoMetric

\* a run has ended after its create stage failed
C6_Witness ==
    \E t \in DOMAIN threads :
        /\ threads[t].pc = "raised"
        /\ threads[t].error = "Borg create failed"
        /\ job_logs[threads[t].log_entry_id].status = "failed"

\* C7: a hook that fails, by exit code or by timeout, never makes the run
\* fail and never keeps the next stage from executing
C7_HooksBestEffort ==
    \A t \in DOMAIN threads :
        LET th == threads[t]
        IN /\ th.error # "Command execution timed out"
           /\ Ended(th) /\ th.log_entry_id > 0 /\ Truthy(th.job.pre_command)
                 => Len(th.trace) >= 2

\* what the run measured for a stage it executed with success
Measured(th, s) ==
    IF s \in {"db_dump", "db_archive"} THEN th.db[s]
    ELSE IF s \in DbStages THEN NoMetric ELSE th.m[s]

\* C8: the row of a run that has ended, completed or failed, holds the
\* duration and peak memory of every stage the run executed with success
C8_MetricsOfExecutedStages ==
    \A t \in DOMAIN threads :
        LET th == threads[t]
        IN Ended(th) /\ th.log_entry_id > 0 =>
              \A s \in MetricStages :
                  Measured(th, s) # NoMetric =>
                      RowMetric(job_logs[th.log_entry_id], s) = Measured(th, s)

\* the db sub-stage s executed in the run of the thread: the dump step
\* returned files and the run came to the sub-stage
DbStageExecuted(th, s) ==
    /\ th.dump_files # {}
    /\ \E i \in DOMAIN th.trace : th.trace[i] = s

\* C9: a completed run of a job without database config has no db metrics;
\* a completed run holds a metric for a db sub-stage exactly if the
\* sub-stage executed in that run
C9_DbMetrics ==
    \A t \in DOMAIN threads :
        LET th == threads[t]
        IN th.pc = "returned" =>
              \A s \in DbStages :
                  RowMetric(job_logs[th.log_entry_id], s) # NoMetric
                      <=> DbStageExecuted(th, s)

\* C11: when the object-storage sync raises, the run does not go on to the
\* success path, and it ends with its row 'failed' and the error message of
\* the sync failure, although create, prune and compact succeeded; the row
\* is never 'completed'
C11_SyncFailureIsFatal ==
    \A t \in DOMAIN threads :
        LET th == threads[t]
        IN "s3_sync" \in th.failed =>
              /\ Last(th.trace) = "s3_sync"
              /\ th.error = "S3 sync failed"
              /\ \A s \in {"create", "prune", "compact"} : th.m[s] # NoMetric
              /\ th.pc \in {"update_failed", "notify_failure", "raised", "finally"}
              /\ job_logs[th.log_entry_id].status # "completed"
              /\ Ended(th) =>
                    /\ job_logs[th.log_entry_id].status = "failed"
                    /\ job_logs[th.log_entry_id].error_message = "S3 sync failed"

\* the sync of a run raised after create, prune and compact had succeeded,
\* and the run has ended
C11_Witness ==
    \E t \in DOMAIN threads :
        /\ threads[t].pc = "raised"
        /\ "s3_sync" \in threads[t].failed
        /\ threads[t].m["compact"] # NoMetric
        /\ job_logs[threads[t].log_entry_id].status = "failed"

\* C12: while a thread runs a job that pre-flight validation rejects, no
\* step inserts or changes a run record or changes the repository or the
\* dump directory; the thread never has a record or an executed stage, and
\* execute_job ends by raising
C12_RejectedJobChangesNothing ==
    [][\A t \in DOMAIN threads :
          ValidateJobConfig(threads[t].job, env_passphrase) # {} =>
              /\ job_logs' = job_logs
              /\ repo_exists' = repo_exists
              /\ dump_dir' = dump_dir
              /\ threads'[t].log_entry_id = 0
              /\ threads'[t].trace = <<>>
              /\ threads'[t].pc # "returned"]_vars

\* execute_job has raised on a job with an unknown compression
C12_Witness ==
    \E t \in DOMAIN threads :
        /\ threads[t].pc = "raised"
        /\ threads[t].error = "Job validation failed"
        /\ threads[t].job.compression \notin ValidCompressions
        /\ job_logs = <<>>

\* the run record of the thread
RowOf(th) == job_logs[th.log_entry_id]

\* C13: in every step in which a run that has a record sends its
\* notification, the record is already terminal: 'completed' when the
\* success notification is sent, after which execute_job returns, and
\* 'failed' with the error message of the run when the failure notification
\* is sent, after which execute_job raises that error
C13_RecordBeforeNotification ==
    [][\A t \in DOMAIN threads :
          LET th == threads[t]
              after == threads'[t]
          IN /\ th.log_entry_id > 0
             /\ th.notified = None
             /\ after.notified # None
             =>
                IF th.error = None
                   THEN /\ RowOf(th).status = "completed"
                        /\ after.pc = "returned"
                   ELSE /\ RowOf(th).status = "failed"
                        /\ RowOf(th).error_message = th.error
                        /\ after.pc = "raised"
                        /\ after.error = th.error]_vars

\* a failed run has sent its failure notification and raised
C13_Witness ==
    \E t \in DOMAIN threads :
        /\ threads[t].pc = "raised"
        /\ threads[t].notified = "delivered"
        /\ RowOf(threads[t]).status = "failed"
        /\ RowOf(threads[t]).error_message = "Borg prune failed"

\* C14: a notification whose delivery failed changes nothing: a run without
\* error has returned with its row 'completed', a run with an error has
\* raised that error with its row 'failed' and the message of that error
C14_NotificationFailureIsSwallowed ==
    \A t \in DOMAIN threads :
        LET th == threads[t]
        IN th.notified \notin {None, "delivered"} /\ th.log_entry_id > 0 =>
              IF th.error = None
                 THEN /\ th.pc = "returned"
                      /\ RowOf(th).status = "completed"
                 ELSE /\ th.pc \in {"raised", "finally"}
                      /\ RowOf(th).status = "failed"
                      /\ RowOf(th).error_message = th.error

\* the SMTP send of the success notification failed and the run returned
\* with its row 'completed'
C14_Witness ==
    \E t \in DOMAIN threads :
        /\ threads[t].pc = "returned"
        /\ threads[t].notified = "smtp_error"
        /\ RowOf(threads[t]).status = "completed"

\* C19: a run record is inserted with status 'running'; a step that writes
\* to an existing record finds it 'running' and leaves it 'completed' or
\* 'failed'; and when execute_job has returned or raised after inserting a
\* record, the record is 'completed' or 'failed'
C19_OneStatusTransition ==
    [][/\ \A i \in DOMAIN job_logs' :
             IF i \in DOMAIN job_logs
                THEN job_logs'[i] # job_logs[i] =>
                        /\ job_logs[i].status = "running"
                        /\ job_logs'[i].status \in {"completed", "failed"}
                ELSE job_logs'[i].status = "running"
       /\ \A t \in DOMAIN threads' :
             Ended(threads'[t]) /\ threads'[t].log_entry_id > 0 =>
                job_logs'[threads'[t].log_entry_id].status
                    \in {"completed", "failed"}]_vars

\* a run has returned after its one write to the record
C19_Witness ==
    \E t \in DOMAIN threads :
        /\ threads[t].pc = "returned"
        /\ threads[t].notified # None
        /\ RowOf(threads[t]).status = "completed"
        /\ RowOf(threads[t]).finished_at = "set"

\* the target function of the scheduler's thread is running: it has marked
\* the job as running and has not yet ended
Live(th) ==
    /\ th.path = "scheduled"
    /\ th.pc \notin {"thread_start", "done", "killed"}

\* C17: every id in the running set belongs to a thread of the scheduler
\* whose target function is running: when the function has ended, by return,
\* by an exception of the pipeline or with a failure notification that could
\* not be sent, the id of its job is no longer in the set
C17_RunningSetHasLiveTask ==
    \A j \in running_jobs :
        \E t \in DOMAIN threads : threads[t].jid = j /\ Live(threads[t])

\* a thread of the scheduler has ended after its run failed, and the
\* running set is empty
C17_Witness ==
    \E t \in DOMAIN threads :
        /\ threads[t].path = "scheduled"
        /\ threads[t].pc = "done"
        /\ threads[t].log_entry_id > 0
        /\ RowOf(threads[t]).status = "failed"
        /\ running_jobs = {}

\* the database-backup stage of the run has ended after its dump step
\* returned files
DbStageEnded(th) ==
    /\ th.dump_files # {}
    /\ th.pc \notin {"db_archive", "db_prune", "db_compact", "db_cleanup"}

\* C10: once the dump step has returned files, all of them are gone when the
\* database-backup stage has ended, whether the archive step succeeded or
\* raised, except those os.remove failed on; a failing os.remove changes
\* nothing else: the stage returns its metrics if no sub-stage raised, and
\* the error of the archive step is the error of the run if it raised
C10_DumpFilesRemoved ==
    \A t \in DOMAIN threads :
        LET th == threads[t]
        IN DbStageEnded(th) =>
              /\ dump_dir \cap (th.dump_files \ th.remove_failed) = {}
              /\ th.exc = None =>
                    /\ \A s \in DbStages : th.m[s] = th.db[s]
                    /\ th.error \notin {"Database archive creation failed"}
              /\ th.exc # None => th.error = th.exc

\* the archive step raised, the removal of one file failed and the other
\* file is gone
C10_Witness ==
    \E t \in DOMAIN threads :
        /\ threads[t].pc = "raised"
        /\ threads[t].exc = "Database archive creation failed"
        /\ threads[t].remove_failed = {"table_a.sql"}
        /\ dump_dir = {"table_a.sql"}

----------------------------------------------------------------------------
(* Properties of the scheduler (Spec) and of the manual trigger            *)
(* (TriggerSpec)                                                           *)

\* the local times at which the schedule fires
IsFireTime(schedule, f) ==
    /\ CronValid(schedule)
    /\ (f - CronOffset(schedule) * MINUTE) % (CronPeriod(schedule) * MINUTE) = 0

\* the threads the scheduler started for fire time f of job j
ScheduledFor(j, f) ==
    {t \in DOMAIN threads : /\ threads[t].path = "scheduled"
                            /\ threads[t].jid = j
                            /\ threads[t].fire = f}

\* execute_job is in progress in the thread
Executing(th) == th.pc \notin {"thread_start", "done", "killed"}

\* C1: for every job and every fire time of its schedule, at most one run
\* record belongs to a run the scheduler started for that fire time
C1_AtMostOneRunPerFireTime ==
    \A j \in DOMAIN backup_jobs :
        \A t1, t2 \in DOMAIN threads :
            /\ t1 # t2
            /\ t1 \in ScheduledFor(j, threads[t2].fire)
            /\ t2 \in ScheduledFor(j, threads[t1].fire)
            => ~(threads[t1].log_entry_id > 0 /\ threads[t2].log_entry_id > 0)

\* C2: for every job and every fire time of its schedule since the loop
\* started, once the grace window of the fire time has passed the scheduler
\* has started a run for it
C2_NoMissedFireTime ==
    \A j \in DOMAIN backup_jobs :
        \A f \in tz_offset..(now + tz_offset) :
            /\ IsFireTime(backup_jobs[j].schedule, f)
            /\ now + tz_offset > f + GRACE_SECONDS
            => ScheduledFor(j, f) # {}

\* C3: a job never has more than one run record in status 'running'
C3_AtMostOneRunningRecord ==
    \A j \in DOMAIN backup_jobs :
        Cardinality({i \in DOMAIN job_logs :
                        /\ job_logs[i].job_id = j
                        /\ job_logs[i].status = "running"}) <= 1

\* C4: a manually triggered run and a scheduled run of the same job are
\* never in progress at the same time
C4_ManualExcludesScheduled ==
    \A t1, t2 \in DOMAIN threads :
        /\ threads[t1].jid = threads[t2].jid
        /\ threads[t1].path = "manual"
        /\ threads[t2].path = "scheduled"
        => ~(Executing(threads[t1]) /\ Executing(threads[t2]))

\* the run of the scheduler's thread has ended in failure: the thread is
\* done and its record is 'failed', or validation left it without a record
FailedRun(th) ==
    /\ th.path = "scheduled"
    /\ th.pc = "done"
    /\ th.log_entry_id > 0 => job_logs[th.log_entry_id].status = "failed"

\* the threads a step has started
NewThreads == DOMAIN threads' \ DOMAIN threads

\* C15: a step in which a run of the scheduler's thread ends in failure
\* leaves the loop as it is, with its next poll pending, and leaves no id
\* in the running set that would keep the job from being dispatched again
C15_FailedRunLeavesLoopRunning ==
    [][\A t \in DOMAIN threads :
          /\ t \in DOMAIN threads'
          /\ threads[t].pc \notin {"done", "killed"}
          /\ FailedRun(threads[t])'
          => /\ next_poll' = next_poll
             /\ last_checked_minute' = last_checked_minute
             /\ \A j \in running_jobs' :
                   \E u \in DOMAIN threads' : threads'[u].jid = j /\ Live(threads'[u])]_vars

\* after a failed run the loop has dispatched the job for a later fire time
C15_Witness ==
    \E t1, t2 \in DOMAIN threads :
        /\ FailedRun(threads[t1])
        /\ threads[t1].log_entry_id > 0
        /\ threads[t2].path = "scheduled"
        /\ threads[t2].fire > threads[t1].fire

\* C16: an iteration of the loop that checks a new minute either starts the
\* threads of the pending jobs and sleeps 30 seconds or, when the store
\* cannot be read, starts no thread and sleeps 60 seconds; in both cases
\* the next poll is pending, and no job whose schedule cannot be evaluated
\* is started
C16_FailedPollBacksOff ==
    [][restarts' = restarts /\ last_checked_minute' # last_checked_minute =>
          LET current_time == now' + tz_offset
          IN /\ \/ /\ threads' = threads \o Dispatch(PendingJobs(current_time),
                                                    current_time)
                   /\ next_poll' = now' + SLEEP_SECONDS
                \/ /\ threads' = threads
                   /\ next_poll' = now' + RETRY_SECONDS
             /\ \A t \in NewThreads :
                   CronValid(backup_jobs[threads'[t].jid].schedule)]_vars

\* a poll has failed and backed off, then the next poll has started a job
C16_Witness ==
    /\ now >= RETRY_SECONDS
    /\ next_poll = now + SLEEP_SECONDS
    /\ Len(threads) = 1
    /\ threads[1].fire = MINUTE

\* C20: the loop never starts a thread for a job and a fire time for which
\* a run of that job has already ended in failure
C20_FailedRunNotRetried ==
    [][\A t2 \in NewThreads :
          \A t1 \in DOMAIN threads :
              /\ FailedRun(threads[t1])
              /\ threads'[t2].path = "scheduled"
              /\ threads'[t2].jid = threads[t1].jid
              => threads'[t2].fire > threads[t1].fire]_vars

\* job b is due at current_time by what the store and the running set hold
\* about b itself
OwnDue(b, current_time) ==
    LET schedule == backup_jobs[b].schedule
        fire == FireTime(schedule, current_time)
    IN /\ b \notin running_jobs
       /\ CronValid(schedule)
       /\ current_time - fire <= GRACE_SECONDS
       /\ CountRuns(b, fire, current_time) = 0

\* C18: an iteration of the loop that checks a new minute and reads the
\* store starts a thread for every job that is due by its own schedule,
\* records and running mark, whatever runs of other jobs are in progress
C18_RunningJobDelaysNoOther ==
    [][/\ restarts' = restarts
       /\ last_checked_minute' # last_checked_minute
       /\ next_poll' = now' + SLEEP_SECONDS
       => \A b \in DOMAIN backup_jobs :
             OwnDue(b, now' + tz_offset) =>
                \E t \in NewThreads : threads'[t].jid = b]_vars

\* the run of job 1 is in progress and the loop has started job 2, which
\* became due a minute later
C18_Witness ==
    \E a, b \in DOMAIN threads :
        /\ threads[a].jid = 1 /\ Live(threads[a])
        /\ threads[b].jid = 2
        /\ threads[b].fire > threads[a].fire
        /\ 1 \in running_jobs

\* a run record of job j holds a start instant that lies, on the local
\* clock, in the window [prev, current_time) of a due-check at current_time
RecordInWindow(j, current_time) ==
    \E i \in DOMAIN job_logs :
        /\ job_logs[i].job_id = j
        /\ job_logs[i].started_at + tz_offset
              >= FireTime(backup_jobs[j].schedule, current_time)
        /\ job_logs[i].started_at + tz_offset < current_time

\* C21: an iteration of the loop that checks a new minute starts no thread
\* for a job of which a run record exists whose start instant lies in
\* [prev, T), whatever the running set holds and whatever the offset between
\* the local clock and UTC is
C21_DurableCheckAcrossClocks ==
    [][\A j \in DOMAIN backup_jobs :
          /\ restarts' = restarts
          /\ last_checked_minute' # last_checked_minute
          /\ CronValid(backup_jobs[j].schedule)
          /\ RecordInWindow(j, now' + tz_offset)
          => \A t \in NewThreads : threads'[t].jid # j]_vars

\* C22: a run of a job that passed pre-flight validation, by the passphrase
\* of the job or by that of the environment, never fails in a later stage
\* for want of a passphrase; when the repository stage has run, the
\* repository exists or its initialisation failed for another reason
C22_PassphraseOnlyAtValidation ==
    \A t \in DOMAIN threads :
        LET th == threads[t]
        IN ValidateJobConfig(th.job, env_passphrase) = {} =>
              /\ th.error # "Could not initialize repository: Passphrase is required"
              /\ (\E i \in DOMAIN th.trace : th.trace[i] = "repository")
                    => repo_exists[th.jid]

\* C23: when a db sub-stage of a run has failed (dump, db-archive, db-prune
\* or db-compact), the record of the run is never 'completed', and it is
\* 'failed' when the run has ended
C23_DbFailureIsFatal ==
    \A t \in DOMAIN threads :
        LET th == threads[t]
        IN th.failed \cap DbStages # {} =>
              /\ RowOf(th).status # "completed"
              /\ Ended(th) => RowOf(th).status = "failed"

----------------------------------------------------------------------------
(* The archives of the repositories: the create and prune commands of the  *)
(* jobs, run minute after minute.                                          *)

\* a minute passes
ArchiveTick ==
    /\ now + MINUTE <= Horizon
    /\ now' = now + MINUTE
    /\ UNCHANGED <<tz_offset, backup_jobs, job_logs, running_jobs,
                   last_checked_minute, next_poll, threads, repo_exists,
                   dump_dir, env_passphrase, time_stderr, restarts,
                   archives, pruned>>

\* borg create of _execute_borg_create in the repository of the job
BorgCreateCmd(name) ==
    /\ archives' = [archives EXCEPT ![name] = @ \cup
          {[name |-> ArchiveName(name, now), job |-> name, stage |-> "create"]}]
    /\ UNCHANGED <<now, tz_offset, backup_jobs, job_logs, running_jobs,
                   last_checked_minute, next_poll, threads, repo_exists,
                   dump_dir, env_passphrase, time_stderr, restarts, pruned>>

\* borg create of _execute_db_backup in the repository of the job
DbArchiveCmd(name) ==
    /\ archives' = [archives EXCEPT ![name] = @ \cup
          {[name |-> DbArchiveName(name, now), job |-> name,
            stage |-> "db_archive"]}]
    /\ UNCHANGED <<now, tz_offset, backup_jobs, job_logs, running_jobs,
                   last_checked_minute, next_poll, threads, repo_exists,
                   dump_dir, env_passphrase, time_stderr, restarts, pruned>>

\* borg prune with a glob: the archives of the repository the glob selects;
\* the retention policy removes some of them
PruneCmd(name, stage, glob) ==
    LET selected == {a \in archives[name] : GlobMatch(glob, a.name)}
    IN /\ pruned' = [job |-> name, stage |-> stage, selected |-> selected]
       /\ \E removed \in SUBSET selected :
             archives' = [archives EXCEPT ![name] = @ \ removed]
       /\ UNCHANGED <<now, tz_offset, backup_jobs, job_logs, running_jobs,
                      last_checked_minute, next_poll, threads, repo_exists,
                      dump_dir, env_passphrase, time_stderr, restarts>>

\* _execute_borg_prune
BorgPruneCmd(name) == PruneCmd(name, "prune", PruneGlob(name))

\* _prune_db_archives_timed
DbPruneCmd(name) == PruneCmd(name, "db_prune", DbPruneGlob(name))

ArchiveNext ==
    \/ ArchiveTick
    \/ \E n \in ArchiveJobNames : BorgCreateCmd(n)
    \/ \E n \in ArchiveJobNames : DbArchiveCmd(n)
    \/ \E n \in ArchiveJobNames : BorgPruneCmd(n)
    \/ \E n \in ArchiveJobNames : DbPruneCmd(n)


\* C24: the archives the main prune stage of a job selects are archives the
\* create stage of that job produced: none of another job and none of the
\* job's own '_db' namespace
C24_PruneSelectsOwnArchives ==
    pruned.stage = "prune" =>
        \A a \in pruned.selected :
            /\ a.job = pruned.job
            /\ a.stage = "create"

----------------------------------------------------------------------------
(* The job table under the create and update requests of the web server    *)

\* len(schedule.strip().split())
CronFields(schedule) ==
    CASE schedule = "* * * * *"    -> 5
      [] schedule = "*/2 * * * *"  -> 5
      [] schedule = "1 * * * *"    -> 5
      [] schedule = "* * * *"      -> 4
      [] schedule = "every minute" -> 2
      [] OTHER -> 0

\* validate_schedule
ValidateSchedule(schedule) ==
    IF CronFields(schedule) # 5 THEN FALSE ELSE CronValid(schedule)

\* encrypt_data: the ciphertext decrypt_data maps back to the plaintext
EncryptData(p) == CHOOSE c \in DOMAIN Plaintext : Plaintext[c] = p

\* the request bodies: name, schedule and repository_passphrase may be
\* missing (None); keep_daily is stored as sent, data.get('keep_daily', 7);
\* the other fields are those of the stored job of the scheduler
RequestData ==
    [name : {"nightly", "hourly", None},
     schedule : Schedules \cup {"* * * *", "every minute", None},
     keep_daily : {0, 7},
     repository_passphrase : {"secret", None}]

\* the row an INSERT or UPDATE writes for the request body
RowOfData(id, data) ==
    [StoredJob(id, data.schedule) EXCEPT
        !.name = data.name,
        !.keep_daily = data.keep_daily,
        !.repository_passphrase =
            IF Truthy(data.repository_passphrase)
               THEN EncryptData(data.repository_passphrase) ELSE None]

\* the constraints of table backup_jobs on a row written at position id:
\* name and schedule NOT NULL, name UNIQUE
RowAccepted(id, row) ==
    /\ row.name # None
    /\ row.schedule # None
    /\ \A j \in DOMAIN backup_jobs : j # id => backup_jobs[j].name # row.name

\* POST /api/jobs: _handle_create_job
HandleCreateJob(data) ==
    /\ IF \/ ~Truthy(data.name)
          \/ ~Truthy(data.schedule)
          \/ ~Truthy(data.repository_passphrase)
          THEN UNCHANGED backup_jobs
          ELSE LET id == Len(backup_jobs) + 1
                   row == RowOfData(id, data)
               IN IF RowAccepted(id, row)
                     THEN backup_jobs' = Append(backup_jobs, row)
                     ELSE UNCHANGED backup_jobs
    /\ UNCHANGED <<now, tz_offset, job_logs, running_jobs, last_checked_minute,
                   next_poll, threads, repo_exists, dump_dir, env_passphrase,
                   time_stderr, restarts, archives, pruned>>

\* PUT /api/jobs/<id>: _handle_update_job
HandleUpdateJob(job_id, data) ==
    /\ LET row == RowOfData(job_id, data)
       IN IF job_id \in DOMAIN backup_jobs /\ RowAccepted(job_id, row)
             THEN backup_jobs' = [backup_jobs EXCEPT ![job_id] = row]
             ELSE UNCHANGED backup_jobs
    /\ UNCHANGED <<now, tz_offset, job_logs, running_jobs, last_checked_minute,
                   next_poll, threads, repo_exists, dump_dir, env_passphrase,
                   time_stderr, restarts, archives, pruned>>

JobTableInit ==
    /\ now = 0
    /\ tz_offset = 0
    /\ backup_jobs = <<>>
    /\ job_logs = <<>>
    /\ running_jobs = {}
    /\ last_checked_minute = NULL
    /\ next_poll = 0
    /\ threads = <<>>
    /\ repo_exists = [j \in JobIds |-> TRUE]
    /\ dump_dir = {}
    /\ env_passphrase = None
    /\ time_stderr = [elapsed |-> 3, maxrss_kb |-> 20480]
    /\ restarts = 0
    /\ archives = NoArchives
    /\ pruned = NothingPruned

JobTableNext ==
    \/ \E data \in RequestData : HandleCreateJob(data)
    \/ \E id \in 1..(Len(backup_jobs) + 1), data \in RequestData :
          HandleUpdateJob(id, data)

JobTableSpec == JobTableInit /\ [][JobTableNext]_vars

\* the archives of the repositories, from the empty job table on
ArchiveSpec == JobTableInit /\ [][ArchiveNext]_vars

\* C25: every stored job has a schedule validate_schedule accepts, and a
\* create or update request with a schedule it rejects changes no stored job
C25_StoredSchedulesValid ==
    \A j \in DOMAIN backup_jobs : ValidateSchedule(backup_jobs[j].schedule)

----------------------------------------------------------------------------
(* Properties of the metrics of a run (ExecSpec) *)

\* what the run holds as the metric of a timed stage
StageMetric(th, s) == IF s \in DbStages THEN th.db[s] ELSE th.m[s]

\* the command of stage s has run in the thread and exited with status 0
ExitedZero(th, s) ==
    /\ s \notin th.failed
    /\ \E i \in DOMAIN th.trace : th.trace[i] = s

\* C26: a timed stage whose command exited with status 0 has succeeded and
\* holds a metric, whatever the report of /usr/bin/time was: duration 0 when
\* the elapsed line is missing, 1 MB when the memory line is missing, and
\* (0, 1) when a line cannot be parsed; and a run fails only by the failure
\* of one of its operations or by validation, never by its metrics
C26_MetricsNeverFailStage ==
    \A t \in DOMAIN threads :
        LET th == threads[t]
        IN /\ \A s \in MetricStages \ {"db_dump"} :
                 ExitedZero(th, s) =>
                    /\ StageMetric(th, s) # NoMetric
                    /\ time_stderr.elapsed = NULL => StageMetric(th, s)[1] = 0
                    /\ time_stderr.maxrss_kb = NULL => StageMetric(th, s)[2] = 1
                    /\ Garbage \in {time_stderr.elapsed, time_stderr.maxrss_kb}
                          => StageMetric(th, s) = <<0, 1>>
           /\ th.error \notin {None, "Job validation failed"} => th.failed # {}

\* a run whose report of /usr/bin/time could not be parsed has completed
\* with the default metrics in its record
C26_Witness ==
    \E t \in DOMAIN threads :
        /\ threads[t].pc = "returned"
        /\ time_stderr.elapsed = Garbage
        /\ RowOf(threads[t]).status = "completed"
        /\ RowMetric(RowOf(threads[t]), "create") = <<0, 1>>
        /\ threads[t].db["db_archive"] = <<0, 1>>

----------------------------------------------------------------------------
(* Properties of the due-check (Spec) *)

\* C27: while a thread the loop has started for a job has not yet added the
\* job to the running set, no iteration of the loop starts another thread
\* for that job
C27_GuardClosesDispatchWindow ==
    [][\A t2 \in NewThreads :
          \A t1 \in DOMAIN threads :
              /\ threads[t1].path = "scheduled"
              /\ threads[t1].pc = "thread_start"
              => threads'[t2].jid # threads[t1].jid]_vars

\* C28: a thread the loop starts at poll time T runs for the greatest fire
\* time of the schedule that is on or before T, which is T itself when T is
\* a fire time, and T is at most 61 seconds after that fire time
C28_DispatchWithinGrace ==
    [][\A t \in NewThreads :
          LET T == now' + tz_offset
              schedule == backup_jobs[threads'[t].jid].schedule
              prev == threads'[t].fire
          IN /\ IsFireTime(schedule, prev)
             /\ prev <= T
             /\ T - prev <= GRACE_SECONDS
             /\ \A g \in (prev + 1)..T : ~IsFireTime(schedule, g)]_vars

\* the iteration that has just ended started the first thread of the job,
\* 61 seconds after the fire time the thread runs for
C28_Witness ==
    /\ Len(threads) = 1
    /\ threads[1].pc = "thread_start"
    /\ now + tz_offset = threads[1].fire + GRACE_SECONDS
    /\ next_poll = now + SLEEP_SECONDS
    /\ last_checked_minute = now + tz_offset - ((now + tz_offset) % MINUTE)

----------------------------------------------------------------------------
(* Properties of the run records *)

\* C29: every run record has status running, completed or failed; its
\* finished_at is null exactly when it is running; a completed record holds
\* duration and peak memory of create, prune and compact and no error
\* message; a failed record holds an error message
C29_RunRecordWellFormed ==
    \A i \in DOMAIN job_logs :
        LET row == job_logs[i]
        IN /\ row.status \in {"running", "completed", "failed"}
           /\ row.finished_at = None <=> row.status = "running"
           /\ row.status = "completed" =>
                 /\ \A s \in {"create", "prune", "compact"} :
                       /\ RowMetric(row, s)[1] # NULL
                       /\ RowMetric(row, s)[2] # NULL
                 /\ row.error_message = None
           /\ row.status = "failed" => row.error_message # None

\* the record of a run that failed in its compact stage: finished, with the
\* error message and without metrics
C29_Witness ==
    \E i \in DOMAIN job_logs :
        /\ job_logs[i].status = "failed"
        /\ job_logs[i].finished_at # None
        /\ job_logs[i].error_message = "Borg compact failed"
        /\ RowMetric(job_logs[i], "create") = NoMetric

\* C30: when the dump step of a run has failed, whether a table's dump
\* exited non-zero or exceeded its timeout, no dump file is left in the dump
\* directory
C30_FailedDumpLeavesNoFile ==
    \A t \in DOMAIN threads :
        "db_dump" \in threads[t].failed => dump_dir = {}

----------------------------------------------------------------------------
(* Properties of get_pending_jobs (TwoJobSpec) *)

\* C31: the loop starts no thread for a job whose stored repository
\* passphrase cannot be decrypted
C31_UndecryptableJobSkipped ==
    [][\A t \in NewThreads :
          LET row == backup_jobs[threads'[t].jid]
          IN Truthy(row.repository_passphrase)
                => DecryptOk(row.repository_passphrase)]_vars

\* C32: the run of a job whose stored definition holds a sync config is
\* recorded 'completed' only if the sync stage executed with success in
\* that run
C32_CompletedOnlyAfterSync ==
    \A t \in DOMAIN threads :
        LET th == threads[t]
        IN /\ th.pc = "returned"
           /\ RowOf(th).status = "completed"
           /\ Truthy(backup_jobs[th.jid].s3_config)
           => ExitedZero(th, "s3_sync")

C34_MalformedJobIsolated ==
    LET T == now + tz_offset
    IN \A j \in DOMAIN backup_jobs :
          /\ ShouldRunJob(backup_jobs[j].schedule, T, j)
          /\ backup_jobs[j].source_directories \in DOMAIN JsonValue
          => GetPendingJobsOk(TRUE, T)

----------------------------------------------------------------------------
(* Properties of the archive names of the runs (Spec) *)

\* C35: two runs of a job that have reached the create stage have distinct
\* archive names: the name the create stage of one run is about to use, or
\* has used, is not the name of another run of that job
C35_ArchiveNamesDistinct ==
    \A t1, t2 \in DOMAIN threads :
        LET a == threads[t1]
            b == threads[t2]
            AtCreate(th) == /\ th.log_entry_id # 0
                            /\ \/ th.pc = "create"
                               \/ RowOf(th).status = "completed"
        IN /\ t1 # t2
           /\ a.jid = b.jid
           /\ AtCreate(a)
           /\ AtCreate(b)
           => ArchiveName(<<a.job.name>>, RowOf(a).started_at)
                 # ArchiveName(<<b.job.name>>, RowOf(b).started_at)

----------------------------------------------------------------------------
(* Properties of the job dicts built from a stored row (JobTableSpec) *)

\* C36: for every stored job the dict get_pending_jobs builds and the dict
\* _handle_trigger_job builds hold the same compression, the same
\* keep_daily and the same source directories
C36_SameConfigOnBothPaths ==
    \A j \in DOMAIN backup_jobs :
        LET scheduled == PendingJob(backup_jobs[j])
            manual == TriggerJob(backup_jobs[j])
        IN /\ scheduled.compression = manual.compression
           /\ scheduled.keep_daily = manual.keep_daily
           /\ scheduled.source_directories = manual.source_directories

----------------------------------------------------------------------------
(* Properties of the post-command (ExecSpec) *)

----------------------------------------------------------------------------
(* Properties of the failure notifications of a scheduled run (ExecSpec) *)

\* C38: when the except clause of the job thread has handled the failure of
\* a run that has its run record, send_notification was called once for
\* that failure, by the executor and the job thread taken together
C38_OneFailureNotification ==
    \A t \in DOMAIN threads :
        LET th == threads[t]
            issued == (IF th.notified # None THEN 1 ELSE 0)
                         + (IF th.thread_notified # None THEN 1 ELSE 0)
        IN /\ th.path = "scheduled"
           /\ th.pc = "finally"
           /\ th.log_entry_id # 0
           /\ RowOf(th).status = "failed"
           => issued = 1

----------------------------------------------------------------------------
(* Properties of the due-check next to manual runs (TriggerSpec) *)

\* C39: while the run record of a manually triggered run of a job has its
\* start instant in [prev, T), T the poll time and prev the fire time the
\* due-check at T is about, the due-check at T returns false for the job,
\* whatever the status of the record
C39_ManualRunsCount ==
    \A t \in DOMAIN threads :
        LET th == threads[t]
            T == now + tz_offset
            schedule == backup_jobs[th.jid].schedule
        IN /\ th.path = "manual"
           /\ th.log_entry_id # 0
           /\ CronValid(schedule)
           /\ RowOf(th).started_at + tz_offset >= FireTime(schedule, T)
           /\ RowOf(th).started_at + tz_offset < T
           => ~ShouldRunJob(schedule, T, th.jid)

====
